---- MODULE Spec2Model ----
(***************************************************************************)
(* Epos-pharma: the App component (src/unnamed/part_000) holds the catalog, *)
(* the sale ledger, the held-sale registry, the audit log, the settings    *)
(* and the session user; the POS page (src/pages/POS.tsx) holds the cart,  *)
(* the payment method and the processing flag; the Inventory page          *)
(* (src/pages/Inventory.tsx) adds and deletes products; the Settings page  *)
(* (second half of src/pages/Login.tsx) edits settings and clears the      *)
(* ledger.                                                                 *)
(*                                                                         *)
(* Every handler is one action.  The delayed callback of the checkout is   *)
(* modelled as what it is: POS.handleCheckout only schedules a callback    *)
(* (action Pay); the callback runs later (action CheckoutCommit) with the  *)
(* values its closures captured when Pay was pressed.                      *)
(*                                                                         *)
(* The state space of all handlers together is beyond what can be          *)
(* enumerated, so there are several specifications over the same actions: *)
(*   Spec        one session of any role: navigation, cart, checkout, hold *)
(*               and resume, add and delete product, clear sales history   *)
(*   SpecClock   the POS page with the clock advancing                     *)
(*   SpecHold    an admin session: cart, hold and resume with several held *)
(*               sales, and the tax-rate setting                           *)
(*   SpecTax     an admin session: cart and checkout under tax-rate edits  *)
(*   SpecViews   the Inventory filters and the Dashboard count, on         *)
(*               catalogs with reorder levels, with the clock advancing    *)
(*   SpecSession login and logout of the three roles, with the Inventory   *)
(*               and Settings handlers and the checkout                    *)
(*   SpecKeep    sessions of the admin and the cashier around a held sale  *)
(*   SpecForm    the add-product form, with the clock advancing            *)
(*   SpecStart   the App from the cached session on: logins, logouts and   *)
(*               the localStorage item, with the POS                       *)
(*   SpecSearch  the product search of the POS and Inventory pages, on     *)
(*               catalogs with texts                                       *)
(*   SpecRx      the POS page on prescription products with warning notes  *)
(*                                                                         *)
(* Abstractions: a product carries the fields some handler reads or copies *)
(* (id, stock, expiryDate, requiresPrescription, price, costPrice, name,   *)
(* batchNumber, isNarcotic, and where a view reads them reorderLevel,      *)
(* warningNote, genericName, barcode, sku, category); money                *)
(* totals are kept in hundredths so that subtotal * taxRate / 100 stays an *)
(* integer; dates are integers on one time axis and the timestamps of      *)
(* sales, held sales and log entries are not kept; a user is identified by *)
(* its role; Math.random() ids are drawn from small sets; of the dialogs   *)
(* only those of the checkout callback and the warning note of addToCart   *)
(* are recorded.                                                           *)
(***************************************************************************)
EXTENDS Integers, Sequences, FiniteSets, TLC

\* ---------------------------------------------------------------- bounds
MaxProducts == 3
MaxStock == 1
MaxTime == 1
MaxHeld == 1
MaxHeldId == 1
MaxSales == 2
MaxLog == 2
MaxPending == 1
MaxProductId == 2
MaxSaleId == 1
MaxQuantity == 2
\* SpecHold
HoldMaxHeld == 2
HoldMaxHeldId == 2
\* SpecViews
KeepMaxSales == 1
MaxTermLen == 2
MaxViewProducts == 2
MaxViewTime == 5

\* ------------------------------------------------------- program constants
NoUser == "none"
Roles == {"admin", "pharmacist", "cashier"}
PaymentMethods == {"Cash", "Easypaisa", "JazzCash"}
\* the pages that hold or change state; the Reports page only reads, and
\* being there is being on the dashboard
Routes == {"dashboard", "pos", "inventory", "settings"}

\* ids produced by Math.floor(Math.random() * 100000) (products) and by
\* Math.random().toString(36).substr(2, 9) (sales, held sales): any value of
\* the range can come out, a value already in use included
ProductIds == 1..MaxProductId
SaleIds == 1..MaxSaleId

\* values of the add-product form and of the tax_rate input
\* an empty form field, an absent setting, a setting with value ''
Missing == -1
FormExpiry == {Missing, 0, MaxTime + 1}
FormPrices == {0, 100}
FormCosts == {0, 60, 120}
TaxRates == {5, 17}
ViewStocks == {3, 4, 5, 6}
ViewExpiry == {2, 4}
Absent == -2
Empty == -1

\* the fixtures of ./constants (not part of the sources at hand)
MOCK_USERS == Roles
MOCK_PRODUCTS ==
  << [id |-> 1, stock |-> 2, expiryDate |-> MaxTime + 1,
      requiresPrescription |-> FALSE, price |-> 100, costPrice |-> 60,
      name |-> "P1", batchNumber |-> "B1", isNarcotic |-> FALSE],
     [id |-> 2, stock |-> 1, expiryDate |-> 0,
      requiresPrescription |-> TRUE, price |-> 50, costPrice |-> 30,
      name |-> "P2", batchNumber |-> "B2", isNarcotic |-> TRUE] >>
DEFAULT_SETTINGS == [tax_rate |-> 17]

VARIABLES
  user,           \* App: session user (a role) or NoUser
  route,          \* HashRouter location: the page
  activeFilter,   \* HashRouter location: the filter parameter of /inventory
  storage,        \* localStorage: the item under 'epos_user', or NoItem
  searchTerm,     \* POS or Inventory, the page mounted: the search input
  selectedCategory, \* POS: the category chip selected
  products,       \* App: catalog, a sequence of Product
  settings,       \* App: settings registry
  sales,          \* App: sale ledger, newest first
  heldSales,      \* App: held-sale registry, newest first
  auditLogs,      \* App: audit log, newest first
  cart,           \* POS: active cart, a sequence of CartItem
  paymentMethod,  \* POS
  isProcessing,   \* POS
  timers,         \* pending setTimeout callbacks of POS.handleCheckout
  now,            \* wall clock
  alerts          \* dialogs shown by the last handler if it was the checkout
                  \* callback or the warning note of addToCart, in order;
                  \* << >> after any other handler

vars == << user, route, activeFilter, storage, searchTerm, selectedCategory,
           products, settings, sales, heldSales, auditLogs,
           cart, paymentMethod, isProcessing, timers, now, alerts >>


\* ----------------------------------------------------------------- helpers
Min(S) == CHOOSE x \in S : \A y \in S : x <= y

\* Array.prototype.find on an id: index of the first match, 0 when none
FindById(seq, id) ==
  LET S == { i \in 1..Len(seq) : seq[i].id = id }
  IN IF S = {} THEN 0 ELSE Min(S)

\* Number(settings.find(s => s.key === key)?.value || fallback)
SettingNumber(key, fallback) ==
  IF settings[key] \in {Absent, Empty} THEN fallback ELSE settings[key]

taxRate == SettingNumber("tax_rate", 0)

\* cart.reduce((sum, item) => sum + item.price * item.quantity, 0)
RECURSIVE subtotal(_)
subtotal(c) ==
  IF c = << >> THEN 0
  ELSE Head(c).price * Head(c).quantity + subtotal(Tail(c))
\* total, had it left the tax out (C12)
totalWithoutTax(c, rate) == subtotal(c) * 100

\* taxAmount = subtotal * taxRate / 100, total = subtotal + taxAmount; both
\* are kept multiplied by 100
taxAmount(c, rate) == subtotal(c) * rate
total(c, rate) == subtotal(c) * 100 + taxAmount(c, rate)

\* the route guards, had they let every role in (C15)
AllowedAll(u, r) == TRUE

\* route guards of the App's <Routes>
Allowed(u, r) ==
  CASE r = "inventory" -> u \in {"admin", "pharmacist"}
    [] r = "settings" -> u = "admin"
    [] OTHER -> TRUE

Landing(u, r) == IF Allowed(u, r) THEN r ELSE "dashboard"

posMounted == user # NoUser /\ route = "pos"

\* the POS component is unmounted: its state is gone, and the callbacks it
\* scheduled can no longer set it
Unmounted(ts) == [ i \in 1..Len(ts) |-> [ ts[i] EXCEPT !.live = FALSE ] ]

\* logAction: silently nothing without a user, else prepends an entry
\* logAction, had it kept the new entry alone (C16)
logActionAlone(u, logs, action, details) ==
  IF u = NoUser THEN logs
  ELSE << [userId |-> u, action |-> action, details |-> details] >>

logAction(u, logs, action, details) ==
  IF u = NoUser THEN logs
  ELSE << [userId |-> u, action |-> action, details |-> details] >> \o logs

\* ------------------------------------------------------------------ session
\* JSON.stringify and JSON.parse on a user record (a user is identified by
\* its role); getItem gives NoItem (null) for a key that is not there
NoItem == << >>
JSONstringify(u) == IF u = NoUser THEN << "null" >> ELSE << "role", u >>
JSONparse(text) == IF text = << "null" >> THEN NoUser ELSE text[2]

\* useState initialiser of user: saved ? JSON.parse(saved) : null
savedUser(saved) == IF saved # NoItem THEN JSONparse(saved) ELSE NoUser

\* the session effect, had it stored the serialized null for removing the
\* item (C21)
sessionEffectWithoutRemove(u) == JSONstringify(u)

\* useEffect on [user]: setItem('epos_user', JSON.stringify(user)) or
\* removeItem('epos_user'); it runs with the render that follows setUser
sessionEffect(u) == IF u # NoUser THEN JSONstringify(u) ELSE NoItem

\* the session of Init is one the cache held at start
Init ==
  /\ user \in MOCK_USERS
  /\ route \in Routes
  /\ Allowed(user, route)
  /\ activeFilter = "none"
  /\ searchTerm = << >>
  /\ selectedCategory = "All"
  /\ storage = sessionEffect(user)
  /\ products = MOCK_PRODUCTS
  /\ settings = DEFAULT_SETTINGS
  /\ sales = << >>
  /\ heldSales = << >>
  /\ auditLogs = << >>
  /\ cart = << >>
  /\ paymentMethod = "Cash"
  /\ isProcessing = FALSE
  /\ timers = << >>
  /\ now \in 0..MaxTime
  /\ alerts = << >>

\* Login.handleSubmit with App.handleLogin, and Layout's logout button.
\* The login calls back 800 ms after the form is submitted, a checkout 500 ms
\* after Pay: a checkout pending at logout has run before the next login
handleLogin(u) ==
  /\ user = NoUser
  /\ timers = << >>
  /\ user' = u
  /\ route' = Landing(u, route)
  /\ activeFilter' = IF Allowed(u, route) THEN activeFilter ELSE "none"
  /\ storage' = sessionEffect(u)
  /\ searchTerm' = << >> /\ selectedCategory' = "All"
  /\ alerts' = << >>
  /\ UNCHANGED << products, settings, sales, heldSales, auditLogs,
                  cart, paymentMethod, isProcessing, timers, now >>

\* handleLogout, had it emptied the held-sale registry (C18)
handleLogoutClearing ==
  /\ user # NoUser
  /\ user' = NoUser
  /\ cart' = << >>
  /\ paymentMethod' = "Cash"
  /\ isProcessing' = FALSE
  /\ timers' = Unmounted(timers)
  /\ alerts' = << >>
  /\ heldSales' = << >>
  /\ storage' = sessionEffect(NoUser)
  /\ searchTerm' = << >> /\ selectedCategory' = "All"
  /\ UNCHANGED activeFilter
  /\ UNCHANGED << route, products, settings, sales, auditLogs, now >>

\* Layout's logout button with App.handleLogout: the pages unmount
handleLogout ==
  /\ user # NoUser
  /\ user' = NoUser
  /\ cart' = << >>
  /\ paymentMethod' = "Cash"
  /\ isProcessing' = FALSE
  /\ timers' = Unmounted(timers)
  /\ alerts' = << >>
  /\ storage' = sessionEffect(NoUser)
  /\ searchTerm' = << >> /\ selectedCategory' = "All"
  /\ UNCHANGED activeFilter
  /\ UNCHANGED << route, products, settings, sales, heldSales, auditLogs, now >>

handleNavigate(r) ==
  /\ user # NoUser
  /\ Landing(user, r) # route \/ activeFilter # "none"
  /\ route' = Landing(user, r)
  /\ IF route = "pos"
       THEN /\ cart' = << >>
            /\ paymentMethod' = "Cash"
            /\ isProcessing' = FALSE
            /\ timers' = Unmounted(timers)
       ELSE UNCHANGED << cart, paymentMethod, isProcessing, timers >>
  /\ activeFilter' = "none"
  /\ UNCHANGED storage
  /\ searchTerm' = << >> /\ selectedCategory' = "All"
  /\ alerts' = << >>
  /\ UNCHANGED << user, products, settings, sales, heldSales, auditLogs, now >>

\* ---------------------------------------------------------------------- POS
\* { ...product, quantity }; the copied stock, which nothing reads, is left out
CartItemOf(p, q) ==
  [id |-> p.id, expiryDate |-> p.expiryDate,
   requiresPrescription |-> p.requiresPrescription, price |-> p.price,
   costPrice |-> p.costPrice, name |-> p.name,
   batchNumber |-> p.batchNumber, isNarcotic |-> p.isNarcotic,
   quantity |-> q]

\* new Date(product.expiryDate) < new Date()
isExpired(p, t) == p.expiryDate < t

\* exceedsStock, had it compared the quantity before the add (C5)
exceedsStockBeforeAdd(c, product) ==
  LET k == FindById(c, product.id)
      currentQty == IF k = 0 THEN 0 ELSE c[k].quantity
  IN currentQty > product.stock

\* the stock check of the setCart updater of addToCart
exceedsStock(c, product) ==
  LET k == FindById(c, product.id)
      currentQty == IF k = 0 THEN 0 ELSE c[k].quantity
  IN currentQty + 1 > product.stock

\* the setCart updater of addToCart
addLine(c, product) ==
  IF exceedsStock(c, product) THEN c
  ELSE IF FindById(c, product.id) # 0
    THEN [ i \in 1..Len(c) |->
             IF c[i].id = product.id
               THEN [ c[i] EXCEPT !.quantity = @ + 1 ] ELSE c[i] ]
    ELSE Append(c, CartItemOf(product, 1))

\* declined, had the answer to the confirm dialog been left unread (C24)
declinedNever(product, proceed) == FALSE

\* step 2 of addToCart: the product requires a prescription and the confirm
\* dialog was answered with Cancel
declined(product, proceed) == product.requiresPrescription /\ ~proceed

\* step 3 of addToCart: if (product.warningNote), the field being optional
hasWarningNote(product) ==
  "warningNote" \in DOMAIN product /\ product.warningNote

\* addToCart(product), product being the i-th product on display; its
\* button is disabled while stock is 0 (the expiry test of the button is the
\* one of the last render, which may lie before the expiry)
addToCart(i, proceed) ==
  /\ posMounted
  /\ i \in 1..Len(products)
  /\ products[i].stock # 0
  /\ LET product == products[i] IN
       IF isExpired(product, now)
         THEN /\ alerts' = << >>
              /\ cart' = cart
         ELSE IF declined(product, proceed)
           THEN /\ alerts' = << >>
                /\ cart' = cart
           ELSE /\ cart' = addLine(cart, product)
                /\ alerts' = IF hasWarningNote(product)
                               THEN << "NOTE" >> ELSE << >>
  /\ UNCHANGED << activeFilter, storage, searchTerm, selectedCategory >>
  /\ UNCHANGED << user, route, products, settings, sales, heldSales,
                  auditLogs, paymentMethod, isProcessing, timers, now >>

\* blocksUpdate, had it let every quantity through (C23)
blocksUpdateNever(item, delta) == FALSE

\* the per-item step of updateQuantity
blocksUpdate(item, delta) ==
  LET k == FindById(products, item.id)
  IN k # 0 /\ item.quantity + delta > products[k].stock

newQuantity(item, delta) ==
  IF blocksUpdate(item, delta) THEN item.quantity
  ELSE IF item.quantity + delta < 0 THEN 0 ELSE item.quantity + delta

\* HasQuantity, had it kept the lines of quantity 0 (C17)
HasQuantityOrNone(item) == item.quantity >= 0

\* .filter(item => item.quantity > 0)
HasQuantity(item) == item.quantity > 0

\* the setCart updater of updateQuantity: map, then filter quantity > 0
adjustCart(c, id, delta) ==
  SelectSeq([ i \in 1..Len(c) |->
               IF c[i].id = id
                 THEN [ c[i] EXCEPT !.quantity = newQuantity(c[i], delta) ]
                 ELSE c[i] ],
            HasQuantity)

\* (a line whose product has left the catalog has no upper limit: the
\* quantity is bounded by MaxQuantity)
updateQuantity(k, delta) ==
  /\ posMounted
  /\ k \in 1..Len(cart)
  /\ cart[k].quantity + delta <= MaxQuantity
  /\ cart' = adjustCart(cart, cart[k].id, delta)
  /\ alerts' = << >>
  /\ UNCHANGED << activeFilter, storage, searchTerm, selectedCategory >>
  /\ UNCHANGED << user, route, products, settings, sales, heldSales,
                  auditLogs, paymentMethod, isProcessing, timers, now >>

removeFromCart(k) ==
  /\ posMounted
  /\ k \in 1..Len(cart)
  /\ cart' = SelectSeq(cart, LAMBDA item : item.id # cart[k].id)
  /\ alerts' = << >>
  /\ UNCHANGED << activeFilter, storage, searchTerm, selectedCategory >>
  /\ UNCHANGED << user, route, products, settings, sales, heldSales,
                  auditLogs, paymentMethod, isProcessing, timers, now >>

setPaymentMethod(m) ==
  /\ posMounted
  /\ paymentMethod # m
  /\ paymentMethod' = m
  /\ alerts' = << >>
  /\ UNCHANGED << activeFilter, storage, searchTerm, selectedCategory >>
  /\ UNCHANGED << user, route, products, settings, sales, heldSales,
                  auditLogs, cart, isProcessing, timers, now >>

\* ------------------------------------------------------------------ checkout
\* POS.handleCheckout: the Pay button (disabled while the cart is empty or
\* isProcessing) only schedules the callback.  The callback closes over
\* cart, total, paymentMethod and onCheckout of this render, and onCheckout
\* (App.handleCheckout) over products and user of this render.
Pay ==
  /\ posMounted
  /\ cart # << >>
  /\ ~isProcessing
  /\ Len(timers) < MaxPending
  /\ isProcessing' = TRUE
  /\ timers' = Append(timers,
       [cart |-> cart, total |-> total(cart, taxRate),
        method |-> paymentMethod, products |-> products, user |-> user,
        live |-> TRUE])
  /\ alerts' = << >>
  /\ UNCHANGED << activeFilter, storage, searchTerm, selectedCategory >>
  /\ UNCHANGED << user, route, products, settings, sales, heldSales,
                  auditLogs, cart, paymentMethod, now >>

\* short, had it let a line through that is one above the stock (C4)
shortByTwo(p, cartItem) == p.stock + 1 < cartItem.quantity

\* App.handleCheckout, step 1: if (p.stock < cartItem.quantity)
short(p, cartItem) == p.stock < cartItem.quantity

\* App.handleCheckout, step 1: stockError after the map
stockError(prods, c) ==
  \E i \in 1..Len(prods) :
    LET k == FindById(c, prods[i].id)
    IN k # 0 /\ short(prods[i], c[k])

\* App.handleCheckout, step 1: products.map(...)
updatedProducts(prods, c) ==
  [ i \in 1..Len(prods) |->
      LET k == FindById(c, prods[i].id)
      IN IF k # 0 /\ ~short(prods[i], c[k])
           THEN [ prods[i] EXCEPT !.stock = @ - c[k].quantity ]
           ELSE prods[i] ]

\* SaleItemOf, had it left the batch number out (C25)
SaleItemWithoutBatch(c) ==
  [productId |-> c.id, productName |-> c.name, quantity |-> c.quantity,
   price |-> c.price, costPrice |-> c.costPrice, batchNumber |-> "",
   isNarcotic |-> c.isNarcotic]

\* cart.map(c => ({ productId: c.id, ... }))
SaleItemOf(c) ==
  [productId |-> c.id, productName |-> c.name, quantity |-> c.quantity,
   price |-> c.price, costPrice |-> c.costPrice,
   batchNumber |-> c.batchNumber, isNarcotic |-> c.isNarcotic]

newSale(sid, t) ==
  [id |-> sid, totalAmount |-> t.total,
   paymentMethod |-> t.method, userId |-> t.user,
   items |-> [ i \in 1..Len(t.cart) |-> SaleItemOf(t.cart[i]) ]]

\* appendSale, had it set the ledger to the new Sale alone (C9)
replaceBySale(ledger, sale) == << sale >>

\* setSales(prev => [newSale, ...prev])
appendSale(ledger, sale) == << sale >> \o ledger

\* what the callback does to the POS state after onCheckout returned
cartAfterCommit(t, ok) == IF t.live THEN << >> ELSE cart
alertsAfterCommit(ok) ==
  IF ok THEN << "Transaction Successful!" >>
  ELSE << "Error: One or more items have insufficient stock.",
          "Transaction Successful!" >>

\* the callback of POS.handleCheckout runs: App.handleCheckout with the
\* captured products and user, then the alert and the POS resets
CheckoutCommit ==
  /\ timers # << >>
  /\ LET t == Head(timers)
         ok == t.user # NoUser /\ ~stockError(t.products, t.cart)
     IN
       /\ IF ok
            THEN /\ Len(sales) < MaxSales
                 /\ Len(auditLogs) < MaxLog
                 /\ \E sid \in SaleIds :
                      /\ products' = updatedProducts(t.products, t.cart)
                      /\ sales' = appendSale(sales, newSale(sid, t))
                      /\ auditLogs' = logAction(t.user, auditLogs,
                           "SALE_COMPLETED", << sid, t.total >>)
            ELSE UNCHANGED << products, sales, auditLogs >>
       /\ alerts' = alertsAfterCommit(ok)
       /\ cart' = cartAfterCommit(t, ok)
       /\ IF t.live
            THEN paymentMethod' = "Cash" /\ isProcessing' = FALSE
            ELSE UNCHANGED << paymentMethod, isProcessing >>
  /\ timers' = Tail(timers)
  /\ UNCHANGED << activeFilter, storage, searchTerm, selectedCategory >>
  /\ UNCHANGED << user, route, settings, heldSales, now >>

\* --------------------------------------------------------------- hold/resume
\* newHeld, had it stored the subtotal for the total (C7)
newHeldSubtotal(hid, c, tot, u) ==
  [id |-> hid, items |-> c, total |-> subtotal(c) * 100, userId |-> u]

\* App.handleHoldSale
newHeld(hid, c, tot, u) ==
  [id |-> hid, items |-> c, total |-> tot, userId |-> u]

\* POS.handleHold with App.handleHoldSale, hid being the id drawn; on an
\* empty cart (the button is disabled then) the handler returns at once
handleHold(hid) ==
  /\ posMounted
  /\ IF cart = << >>
       THEN UNCHANGED << heldSales, cart, alerts >>
       ELSE /\ heldSales' = << newHeld(hid, cart, total(cart, taxRate),
                                      user) >> \o heldSales
            /\ cart' = << >>
            /\ alerts' = << >>
  /\ UNCHANGED << activeFilter, storage, searchTerm, selectedCategory >>
  /\ UNCHANGED << user, route, products, settings, sales, auditLogs,
                  paymentMethod, isProcessing, timers, now >>

\* App.handleResumeSale: prev.filter(h => h.id !== id)
withoutHeld(registry, id) == SelectSeq(registry, LAMBDA h : h.id # id)

\* POS.handleResume(held) with App.handleResumeSale, held being the k-th
\* entry of the list on display
handleResume(k) ==
  /\ posMounted
  /\ k \in 1..Len(heldSales)
  /\ cart' = heldSales[k].items
  /\ heldSales' = withoutHeld(heldSales, heldSales[k].id)
  /\ alerts' = << >>
  /\ UNCHANGED << activeFilter, storage, searchTerm, selectedCategory >>
  /\ UNCHANGED << user, route, products, settings, sales, auditLogs,
                  paymentMethod, isProcessing, timers, now >>

\* ---------------------------------------------------------------- inventory
\* the add-product form: text stands for the four required text fields
\* (name, genericName, barcode, batchNumber); the stock input has min="0"
FormFields ==
  [name : BOOLEAN, genericName : BOOLEAN, barcode : BOOLEAN,
   batchNumber : BOOLEAN, id : ProductIds, stock : 0..MaxStock,
   expiryDate : FormExpiry, requiresPrescription : BOOLEAN,
   price : FormPrices, costPrice : FormCosts]

\* the text fields of a form, and the number of them left empty
TextFields == {"name", "genericName", "barcode", "batchNumber"}
EmptyTexts(f) == Cardinality({ x \in TextFields : ~f[x] })

\* the forms submitted: every form with the required fields filled in and
\* sound prices, and for id 1 every other form with at most one text field
\* left empty
FormData ==
  [name : {TRUE}, genericName : {TRUE}, barcode : {TRUE},
   batchNumber : {TRUE}, id : ProductIds, stock : 0..MaxStock,
   expiryDate : FormExpiry \ {Missing}, requiresPrescription : {FALSE},
   price : {100}, costPrice : {60}]
  \cup
  { f \in [name : BOOLEAN, genericName : BOOLEAN, barcode : BOOLEAN,
           batchNumber : BOOLEAN, id : {1}, stock : {0},
           expiryDate : FormExpiry, requiresPrescription : {FALSE},
           price : FormPrices, costPrice : FormCosts] :
      EmptyTexts(f) <= 1 }

\* validateForm, had it not compared the cost with the sales price (C19)
validateFormWithoutMargin(f) ==
  /\ f.name /\ f.genericName /\ f.barcode /\ f.batchNumber
  /\ f.expiryDate # Missing
  /\ ~(f.expiryDate < now)
  /\ ~(f.costPrice <= 0)
  /\ ~(f.price <= 0)

validateForm(f) ==
  /\ f.name /\ f.genericName /\ f.barcode /\ f.batchNumber
  /\ f.expiryDate # Missing
  /\ ~(f.expiryDate < now)
  /\ ~(f.costPrice <= 0)
  /\ ~(f.price <= 0)
  /\ ~(f.costPrice > f.price)

\* (the name and the batch number typed are "N" and "B"; isNarcotic is as
\* initialFormState has it)
newProduct(f) ==
  [id |-> f.id, stock |-> f.stock, expiryDate |-> f.expiryDate,
   requiresPrescription |-> f.requiresPrescription, price |-> f.price,
   costPrice |-> f.costPrice, name |-> "N", batchNumber |-> "B",
   isNarcotic |-> FALSE]

\* Inventory.handleSubmit with App.handleAddProduct; the page is routed to
\* admin and pharmacist only
handleAddProduct(f) ==
  /\ user # NoUser
  /\ route = "inventory"
  /\ IF validateForm(f)
       THEN /\ Len(products) < MaxProducts
            /\ Len(auditLogs) < MaxLog
            /\ products' = Append(products, newProduct(f))
            /\ auditLogs' = logAction(user, auditLogs, "ADD_PRODUCT", f.id)
            /\ alerts' = << >>
       ELSE /\ alerts' = << >>
            /\ UNCHANGED << products, auditLogs >>
  /\ UNCHANGED << activeFilter, storage, searchTerm, selectedCategory >>
  /\ UNCHANGED << user, route, settings, sales, heldSales, cart,
                  paymentMethod, isProcessing, timers, now >>

\* isUsedInSales, had it looked at the first Sale item only (C10)
isFirstItemOfSale(ledger, productId) ==
  \E s \in 1..Len(ledger) :
    Len(ledger[s].items) > 0 /\ ledger[s].items[1].productId = productId

\* sales.some(s => s.items.some(i => i.productId === productId))
isUsedInSales(ledger, productId) ==
  \E s \in 1..Len(ledger) :
    \E i \in 1..Len(ledger[s].items) : ledger[s].items[i].productId = productId

\* setProducts(prev => prev.filter(p => p.id !== productId))
withoutProduct(prods, productId) ==
  SelectSeq(prods, LAMBDA p : p.id # productId)

\* Inventory.handleDelete (admin only, after a confirm dialog) with
\* App.handleDeleteProduct
handleDeleteProduct(productId, confirmed) ==
  /\ user = "admin"
  /\ route = "inventory"
  /\ IF ~confirmed \/ FindById(products, productId) = 0
       THEN /\ alerts' = << >>
            /\ UNCHANGED << products, auditLogs >>
       ELSE IF isUsedInSales(sales, productId)
         THEN /\ alerts' = << >>
              /\ UNCHANGED << products, auditLogs >>
         ELSE /\ Len(auditLogs) < MaxLog
              /\ products' = withoutProduct(products, productId)
              /\ auditLogs' = logAction(user, auditLogs, "DELETE_PRODUCT",
                                        productId)
              /\ alerts' = << >>
  /\ UNCHANGED << activeFilter, storage, searchTerm, selectedCategory >>
  /\ UNCHANGED << user, route, settings, sales, heldSales, cart,
                  paymentMethod, isProcessing, timers, now >>

\* ----------------------------------------------------------------- settings
\* the Settings page is routed to admin only
\* Settings.updateVal: prev.map(s => s.key === key ? { ...s, value } : s)
updateVal(key, value) ==
  /\ user # NoUser
  /\ route = "settings"
  /\ settings[key] # Absent
  /\ settings[key] # value
  /\ settings' = [ settings EXCEPT ![key] = value ]
  /\ alerts' = << >>
  /\ UNCHANGED << activeFilter, storage, searchTerm, selectedCategory >>
  /\ UNCHANGED << user, route, products, sales, heldSales, auditLogs, cart,
                  paymentMethod, isProcessing, timers, now >>

\* Settings.handleSaveUser and handleDeleteUser: the list of users, which
\* no other handler reads, is not kept; the audit entry is
UserActions == {"CREATE_USER", "UPDATE_USER", "DELETE_USER"}
handleUserChange(action) ==
  /\ user # NoUser
  /\ route = "settings"
  /\ Len(auditLogs) < MaxLog
  /\ auditLogs' = logAction(user, auditLogs, action, 0)
  /\ alerts' = << >>
  /\ UNCHANGED << activeFilter, storage, searchTerm, selectedCategory >>
  /\ UNCHANGED << user, route, products, settings, sales, heldSales, cart,
                  paymentMethod, isProcessing, timers, now >>

\* Settings.handleClearData with onClearData = () => setSales([])
handleClearData(confirmation) ==
  /\ user # NoUser
  /\ route = "settings"
  /\ IF confirmation = "DELETE"
       THEN /\ Len(auditLogs) < MaxLog
            /\ sales' = << >>
            /\ auditLogs' = logAction(user, auditLogs, "CLEAR_DATA", 0)
            /\ alerts' = << >>
       ELSE /\ alerts' = << >>
            /\ UNCHANGED << sales, auditLogs >>
  /\ UNCHANGED << activeFilter, storage, searchTerm, selectedCategory >>
  /\ UNCHANGED << user, route, products, settings, heldSales, cart,
                  paymentMethod, isProcessing, timers, now >>

\* ------------------------------------------------------------------- views
\* the views are computed on catalogs whose products carry reorderLevel, and
\* on a time axis with DayLength units to the day (1000 * 60 * 60 * 24 ms)
DayLength == 2

\* x || fallback on numbers
OrElse(x, fallback) == IF x = 0 THEN fallback ELSE x

\* Math.ceil(a / b), b > 0
CeilDiv(a, b) == -((-a) \div b)

\* Inventory: lowStockLimit and expiryAlertDays
lowStockLimit == SettingNumber("low_stock_limit_default", 5)
expiryAlertDays == SettingNumber("expiry_alert_days", 90)

\* Math.ceil((expiry - now) / day), in Inventory and in POS
daysToExpiry(p, t) == CeilDiv(p.expiryDate - t, DayLength)

\* Inventory.filteredProducts, step 2 (matchesFilter)
matchesFilter(p, filter, t) ==
  CASE filter = "lowstock" -> p.stock <= OrElse(p.reorderLevel, lowStockLimit)
    [] filter = "expiring" ->
         daysToExpiry(p, t) <= expiryAlertDays /\ daysToExpiry(p, t) >= 0
    [] OTHER -> TRUE

\* Inventory.filteredProducts with an empty search term, which every
\* product matches
filteredProducts(filter, t) ==
  SelectSeq(products, LAMBDA p : matchesFilter(p, filter, t))

\* lowStockCount, had it counted the products below the threshold (C13)
lowStockCountBelow ==
  LET lowStockThreshold == SettingNumber("low_stock_limit_default", 5)
  IN Len(SelectSeq(products,
       LAMBDA p : p.stock < OrElse(p.reorderLevel, lowStockThreshold)))

\* Dashboard: lowStockThreshold and lowStockCount
lowStockCount ==
  LET lowStockThreshold == SettingNumber("low_stock_limit_default", 5)
  IN Len(SelectSeq(products,
       LAMBDA p : p.stock <= OrElse(p.reorderLevel, lowStockThreshold)))

\* the stock indicators of the POS product grid and of the Inventory table
posLowStock(product) == product.stock <= product.reorderLevel
inventoryLowStock(product) ==
  product.stock <= OrElse(product.reorderLevel, lowStockLimit)

\* POS product grid: isNearExpiry
isNearExpiry(p, t) ==
  daysToExpiry(p, t) <= expiryAlertDays /\ ~isExpired(p, t)

\* Dashboard quick links: navigate('/inventory?filter=...')
openFiltered(filter) ==
  /\ user # NoUser
  /\ route = "dashboard"
  /\ route' = Landing(user, "inventory")
  /\ activeFilter' = IF Allowed(user, "inventory") THEN filter ELSE "none"
  /\ UNCHANGED storage
  /\ searchTerm' = << >> /\ selectedCategory' = "All"
  /\ alerts' = << >>
  /\ UNCHANGED << user, products, settings, sales, heldSales, auditLogs,
                  cart, paymentMethod, isProcessing, timers, now >>

\* ------------------------------------------------------------------ search
\* a text is a sequence of characters; the letters in use have two cases
toLowerCase(text) ==
  [ i \in 1..Len(text) |->
      CASE text[i] = "A" -> "a"
        [] text[i] = "B" -> "b"
        [] text[i] = "K" -> "k"
        [] OTHER -> text[i] ]

\* String.prototype.includes: term is a substring of text
includes(text, term) ==
  \E i \in 0..(Len(text) - Len(term)) :
    SubSeq(text, i + 1, i + Len(term)) = term

\* POS.filteredProducts: matchesSearch and matchesCategory
posMatchesSearch(product, term) ==
  \/ includes(toLowerCase(product.name), toLowerCase(term))
  \/ includes(toLowerCase(product.genericName), toLowerCase(term))
  \/ includes(toLowerCase(product.barcode), toLowerCase(term))
  \/ includes(toLowerCase(product.sku), toLowerCase(term))

matchesCategory(product, category) ==
  category = "All" \/ product.category = category

posFilteredProducts(term, category) ==
  SelectSeq(products,
    LAMBDA p : posMatchesSearch(p, term) /\ matchesCategory(p, category))

\* Inventory.filteredProducts, step 1 (matchesSearch), and the whole filter
matchesSearch(p, term) ==
  \/ includes(toLowerCase(p.name), toLowerCase(term))
  \/ includes(toLowerCase(p.genericName), toLowerCase(term))
  \/ includes(toLowerCase(p.barcode), toLowerCase(term))

inventoryFilteredProducts(term, filter, t) ==
  SelectSeq(products,
    LAMBDA p : matchesSearch(p, term) /\ matchesFilter(p, filter, t))

\* POS: categories
categories == {"All"} \cup { products[i].category : i \in DOMAIN products }

\* the search input of the POS or the Inventory page: onChange
setSearchTerm(term) ==
  /\ user # NoUser
  /\ route \in {"pos", "inventory"}
  /\ term # searchTerm
  /\ searchTerm' = term
  /\ alerts' = << >>
  /\ UNCHANGED << activeFilter, storage, selectedCategory >>
  /\ UNCHANGED << user, route, products, settings, sales, heldSales,
                  auditLogs, cart, paymentMethod, isProcessing, timers, now >>

\* the category chips of the POS page
setSelectedCategory(cat) ==
  /\ posMounted
  /\ cat \in categories
  /\ cat # selectedCategory
  /\ selectedCategory' = cat
  /\ alerts' = << >>
  /\ UNCHANGED << activeFilter, storage, searchTerm >>
  /\ UNCHANGED << user, route, products, settings, sales, heldSales,
                  auditLogs, cart, paymentMethod, isProcessing, timers, now >>

\* time passes
Tick ==
  /\ now' = now + 1
  /\ UNCHANGED << activeFilter, storage, searchTerm, selectedCategory >>
  /\ UNCHANGED << user, route, products, settings, sales, heldSales,
                  auditLogs, cart, paymentMethod, isProcessing, timers, alerts >>

\* ------------------------------------------------------------ specifications
\* the session of Init is one the cache held at start or a login opened
Next ==
  \/ \E r \in Routes : handleNavigate(r)
  \/ \E i \in DOMAIN products, proceed \in BOOLEAN : addToCart(i, proceed)
  \/ \E k \in DOMAIN cart, delta \in {1, -1} : updateQuantity(k, delta)
  \/ \E k \in DOMAIN cart : removeFromCart(k)
  \/ Pay
  \/ CheckoutCommit
  \/ \E hid \in 1..MaxHeldId : Len(heldSales) < MaxHeld /\ handleHold(hid)
  \/ \E k \in DOMAIN heldSales : handleResume(k)
  \/ \E f \in FormData : handleAddProduct(f)
  \/ \E id \in ProductIds, confirmed \in BOOLEAN :
       handleDeleteProduct(id, confirmed)
  \/ \E c \in {"DELETE", "no"} : handleClearData(c)

Spec == Init /\ [][Next]_vars

InitClock == Init /\ route = "pos" /\ now = 0

NextClock ==
  \/ \E i \in DOMAIN products, proceed \in BOOLEAN : addToCart(i, proceed)
  \/ \E k \in DOMAIN cart, delta \in {1, -1} : updateQuantity(k, delta)
  \/ \E k \in DOMAIN cart : removeFromCart(k)
  \/ Pay
  \/ CheckoutCommit
  \/ \E hid \in 1..MaxHeldId : Len(heldSales) < MaxHeld /\ handleHold(hid)
  \/ \E k \in DOMAIN heldSales : handleResume(k)
  \/ now < MaxTime /\ Tick

SpecClock == InitClock /\ [][NextClock]_vars

InitHold == Init /\ user = "admin" /\ now = 0

NextHold ==
  \/ \E r \in Routes : handleNavigate(r)
  \/ \E i \in DOMAIN products, proceed \in BOOLEAN : addToCart(i, proceed)
  \/ \E k \in DOMAIN cart, delta \in {1, -1} : updateQuantity(k, delta)
  \/ \E k \in DOMAIN cart : removeFromCart(k)
  \/ \E hid \in 1..HoldMaxHeldId :
       Len(heldSales) < HoldMaxHeld /\ handleHold(hid)
  \/ \E k \in DOMAIN heldSales : handleResume(k)
  \/ \E v \in TaxRates \cup {Empty} : updateVal("tax_rate", v)

SpecHold == InitHold /\ [][NextHold]_vars

NextTax ==
  \/ \E r \in Routes : handleNavigate(r)
  \/ \E i \in DOMAIN products, proceed \in BOOLEAN : addToCart(i, proceed)
  \/ \E k \in DOMAIN cart, delta \in {1, -1} : updateQuantity(k, delta)
  \/ \E k \in DOMAIN cart : removeFromCart(k)
  \/ Pay
  \/ CheckoutCommit
  \/ \E v \in TaxRates \cup {Empty} : updateVal("tax_rate", v)

SpecTax == InitHold /\ [][NextTax]_vars

NextSession ==
  \/ \E u \in MOCK_USERS : handleLogin(u)
  \/ handleLogout
  \/ \E r \in Routes : handleNavigate(r)
  \/ \E i \in DOMAIN products, proceed \in BOOLEAN : addToCart(i, proceed)
  \/ Pay
  \/ CheckoutCommit
  \/ \E f \in FormData : handleAddProduct(f)
  \/ \E id \in ProductIds, confirmed \in BOOLEAN :
       handleDeleteProduct(id, confirmed)
  \/ \E v \in TaxRates : updateVal("tax_rate", v)
  \/ \E action \in UserActions : handleUserChange(action)
  \/ \E c \in {"DELETE", "no"} : handleClearData(c)

SpecSession == Init /\ [][NextSession]_vars

\* sessions of the admin and the cashier around a held sale: one form, one
\* Sale
NextKeep ==
  \/ \E u \in {"admin", "cashier"} : handleLogin(u)
  \/ handleLogout
  \/ \E r \in Routes : handleNavigate(r)
  \/ \E i \in DOMAIN products, proceed \in BOOLEAN : addToCart(i, proceed)
  \/ \E hid \in 1..MaxHeldId : Len(heldSales) < MaxHeld /\ handleHold(hid)
  \/ \E k \in DOMAIN heldSales : handleResume(k)
  \/ Len(sales) < KeepMaxSales /\ Pay
  \/ CheckoutCommit
  \/ \E f \in FormData :
       /\ validateForm(f) /\ f.stock = MaxStock /\ f.expiryDate > MaxTime
       /\ f.id = MaxProductId
       /\ handleAddProduct(f)
  \/ \E id \in ProductIds : handleDeleteProduct(id, TRUE)
  \/ \E v \in TaxRates : updateVal("tax_rate", v)
  \/ handleClearData("DELETE")

SpecKeep == InitHold /\ [][NextKeep]_vars

\* the Inventory page of an admin or a pharmacist, over two days
InitForm == Init /\ route = "inventory" /\ now = 0

NextForm ==
  \/ \E r \in Routes : handleNavigate(r)
  \/ \E f \in FormData : handleAddProduct(f)
  \/ \E id \in ProductIds, confirmed \in BOOLEAN :
       handleDeleteProduct(id, confirmed)
  \/ now < MaxTime /\ Tick

SpecForm == InitForm /\ [][NextForm]_vars

\* the App as it starts on what localStorage holds, a serialized user or
\* nothing, with logins, logouts and the POS
InitStart ==
  /\ \E saved \in {NoItem} \cup { JSONstringify(u) : u \in MOCK_USERS } :
       /\ user = savedUser(saved)
       /\ storage = sessionEffect(savedUser(saved))
  /\ route \in Routes
  /\ user # NoUser => Allowed(user, route)
  /\ activeFilter = "none"
  /\ searchTerm = << >>
  /\ selectedCategory = "All"
  /\ products = MOCK_PRODUCTS
  /\ settings = DEFAULT_SETTINGS
  /\ sales = << >>
  /\ heldSales = << >>
  /\ auditLogs = << >>
  /\ cart = << >>
  /\ paymentMethod = "Cash"
  /\ isProcessing = FALSE
  /\ timers = << >>
  /\ now = 0
  /\ alerts = << >>

NextStart ==
  \/ \E u \in MOCK_USERS : handleLogin(u)
  \/ handleLogout
  \/ \E r \in Routes : handleNavigate(r)
  \/ \E i \in DOMAIN products, proceed \in BOOLEAN : addToCart(i, proceed)
  \/ Pay
  \/ CheckoutCommit

SpecStart == InitStart /\ [][NextStart]_vars

\* catalogs and search terms for the search: two products with texts in
\* both cases, the second of them with an SKU of its own or the barcode for
\* SKU, and every term of up to MaxTermLen characters
TermChars == {"a", "B", "k", "7"}
SearchTerms ==
  UNION { [1..n -> TermChars] : n \in 0..MaxTermLen }

SearchProducts(id) ==
  [id : {id}, name : {<< "A", "b" >>, << "b" >>},
   genericName : {<< "a", "B" >>}, barcode : {<< "7" >>},
   sku : {<< "K", "7" >>, << "7" >>},
   category : {"Antibiotics", "Analgesics"},
   stock : {1}, reorderLevel : {0}, expiryDate : {MaxTime + 1},
   requiresPrescription : {FALSE}, price : {100}, costPrice : {60}]

InitSearch ==
  /\ user \in MOCK_USERS
  /\ route = "dashboard"
  /\ activeFilter = "none"
  /\ searchTerm = << >>
  /\ selectedCategory = "All"
  /\ storage = sessionEffect(user)
  /\ \E p1 \in SearchProducts(1), p2 \in SearchProducts(2) :
       products = << p1, p2 >>
  /\ settings = [tax_rate |-> 17, low_stock_limit_default |-> Absent,
                 expiry_alert_days |-> Absent]
  /\ sales = << >>
  /\ heldSales = << >>
  /\ auditLogs = << >>
  /\ cart = << >>
  /\ paymentMethod = "Cash"
  /\ isProcessing = FALSE
  /\ timers = << >>
  /\ now = 0
  /\ alerts = << >>

NextSearch ==
  \/ \E r \in Routes : handleNavigate(r)
  \/ \E filter \in {"lowstock", "expiring"} : openFiltered(filter)
  \/ \E term \in SearchTerms : setSearchTerm(term)
  \/ \E cat \in categories : setSelectedCategory(cat)

SpecSearch == InitSearch /\ [][NextSearch]_vars

\* the POS page of a cashier on a catalog of prescription products, one of
\* them with a warning note, the other expiring at time 1
RxProducts ==
  << [id |-> 1, stock |-> 2, expiryDate |-> MaxTime + 1,
      requiresPrescription |-> TRUE, price |-> 100, costPrice |-> 60,
      name |-> "P1", batchNumber |-> "B1", isNarcotic |-> FALSE,
      warningNote |-> TRUE],
     [id |-> 2, stock |-> 1, expiryDate |-> 0,
      requiresPrescription |-> TRUE, price |-> 50, costPrice |-> 30,
      name |-> "P2", batchNumber |-> "B2", isNarcotic |-> TRUE] >>

InitRx ==
  /\ user = "cashier"
  /\ route = "pos"
  /\ activeFilter = "none"
  /\ searchTerm = << >>
  /\ selectedCategory = "All"
  /\ storage = sessionEffect(user)
  /\ products = RxProducts
  /\ settings = DEFAULT_SETTINGS
  /\ sales = << >>
  /\ heldSales = << >>
  /\ auditLogs = << >>
  /\ cart = << >>
  /\ paymentMethod = "Cash"
  /\ isProcessing = FALSE
  /\ timers = << >>
  /\ now = 0
  /\ alerts = << >>

SpecRx == InitRx /\ [][NextClock]_vars

\* catalogs and settings for the views
ViewProducts ==
  [id : {1}, stock : ViewStocks, reorderLevel : {0, 3},
   expiryDate : ViewExpiry]
ViewSettings ==
  [tax_rate : {17}, low_stock_limit_default : {Absent, 4},
   expiry_alert_days : {Absent, 1}]

InitViews ==
  /\ user \in MOCK_USERS
  /\ route = "dashboard"
  /\ activeFilter = "none"
  /\ searchTerm = << >>
  /\ selectedCategory = "All"
  /\ storage = sessionEffect(user)
  /\ \E n \in 1..MaxViewProducts : products \in [1..n -> ViewProducts]
  /\ settings \in ViewSettings
  /\ sales = << >>
  /\ heldSales = << >>
  /\ auditLogs = << >>
  /\ cart = << >>
  /\ paymentMethod = "Cash"
  /\ isProcessing = FALSE
  /\ timers = << >>
  /\ now = 0
  /\ alerts = << >>

NextViews ==
  \/ \E r \in Routes : handleNavigate(r)
  \/ \E filter \in {"lowstock", "expiring"} : openFiltered(filter)
  \/ \E v \in {0, 4, Empty} : updateVal("low_stock_limit_default", v)
  \/ \E v \in {1, Empty} : updateVal("expiry_alert_days", v)
  \/ now < MaxViewTime /\ Tick

SpecViews == InitViews /\ [][NextViews]_vars

\* ------------------------------------------------------------------- claims
\* the lines of the cart the running checkout callback was given
CommitCart == Head(timers).cart

\* index in the catalog of the product of a line, 0 when it has none
ProductOf(line) == FindById(products, line.id)

\* C1 (as claimed): checkout is all-or-nothing.  When the checkout callback
\* runs and some line of its cart has catalog stock below the line quantity,
\* no stock changes, no Sale is appended and no audit entry is recorded;
\* otherwise exactly one Sale is appended and the stock of every line's
\* product is decremented by the line quantity in the same step.
C1_AllOrNothing ==
  [][ CheckoutCommit =>
        IF \E k \in DOMAIN CommitCart :
             /\ ProductOf(CommitCart[k]) # 0
             /\ products[ProductOf(CommitCart[k])].stock < CommitCart[k].quantity
          THEN /\ products' = products
               /\ sales' = sales
               /\ auditLogs' = auditLogs
          ELSE /\ Len(sales') = Len(sales) + 1
               /\ \A k \in DOMAIN CommitCart :
                    \E i \in DOMAIN products \cap DOMAIN products' :
                      /\ products[i].id = CommitCart[k].id
                      /\ products'[i].id = CommitCart[k].id
                      /\ products'[i].stock =
                           products[i].stock - CommitCart[k].quantity ]_vars

\* C2 (as claimed): catalog and ledger stay mutually consistent.  A step
\* that appends a Sale decrements, for each item of the Sale, the stock of
\* the catalog product with the item's productId by the item quantity; and
\* a step that lowers the stock of a product appends a Sale.
C2_CatalogLedgerConsistent ==
  [][ /\ Len(sales') > Len(sales) =>
           \A n \in DOMAIN Head(sales').items :
             LET item == Head(sales').items[n] IN
               \E i \in DOMAIN products \cap DOMAIN products' :
                 /\ products[i].id = item.productId
                 /\ products'[i] =
                      [ products[i] EXCEPT !.stock = @ - item.quantity ]
      /\ Len(products') = Len(products) =>
           \A i \in DOMAIN products :
             products'[i].id = products[i].id
               /\ products'[i].stock < products[i].stock
             => Len(sales') > Len(sales) ]_vars

\* C3 (as claimed): the cart is cleared only after a successful commit.  When
\* the checkout callback runs and appends no Sale, the active cart is what it
\* was and the error is the only dialog; "Transaction Successful!" is shown
\* only by a step that appended a Sale.
C3_ClearedOnlyOnSuccess ==
  [][ /\ CheckoutCommit /\ Len(sales') = Len(sales) =>
           /\ cart' = cart
           /\ alerts' = << "Error: One or more items have insufficient stock." >>
      /\ (\E n \in DOMAIN alerts' : alerts'[n] = "Transaction Successful!")
           => Len(sales') = Len(sales) + 1 ]_vars

\* C4: in every reachable state every product of the catalog has stock >= 0.
C4_StockNonNegative == \A i \in DOMAIN products : products[i].stock >= 0

\* a checkout has sold a product out
C4_SoldOut ==
  \E i \in DOMAIN products :
    products[i].stock = 0 /\ isUsedInSales(sales, products[i].id)

\* quantity of the line of the cart c with this product id, 0 without a line
QuantityIn(c, id) == IF FindById(c, id) = 0 THEN 0 ELSE c[FindById(c, id)].quantity

\* C5 (as claimed): after add(product), whether it was accepted or rejected,
\* the cart quantity of that product does not exceed the stock the product
\* had at the call.
C5_NeverExceedsStock ==
  [][ \A i \in DOMAIN products, proceed \in BOOLEAN :
        addToCart(i, proceed) =>
          QuantityIn(cart', products[i].id) <= products[i].stock ]_vars

\* C5 (amended): an add that changes the cart raises the quantity of that
\* product's line by one, to at most the stock the product had at the call,
\* and changes no other line; an add whose resulting quantity would exceed
\* that stock leaves the whole cart unchanged.  With stock 1 and no line, an add that
\* is not blocked gives quantity 1; with stock 1 and quantity 1 the add
\* leaves the cart as it is; for a product with stock 0 the updater of the
\* cart creates no line.
C5_AddWithinStock ==
  [][ /\ \A i \in DOMAIN products, proceed \in BOOLEAN :
           addToCart(i, proceed) =>
             LET product == products[i]
                 before == QuantityIn(cart, product.id)
                 blocked == \/ isExpired(product, now)
                            \/ product.requiresPrescription /\ ~proceed
             IN /\ cart' # cart =>
                     /\ QuantityIn(cart', product.id) = before + 1
                     /\ QuantityIn(cart', product.id) <= product.stock
                     /\ \A k \in DOMAIN cart :
                          cart[k].id # product.id => cart'[k] = cart[k]
                /\ before + 1 > product.stock => cart' = cart
                /\ ~blocked /\ before + 1 <= product.stock => cart' # cart
                /\ ~blocked /\ product.stock = 1 /\ before = 0
                     => QuantityIn(cart', product.id) = 1
                /\ product.stock = 1 /\ before = 1 => cart' = cart
      /\ \A i \in DOMAIN products :
           products[i].stock = 0 => addLine(cart, products[i]) = cart ]_vars

\* a line of the cart stands at the stock of its product, which is 1: the
\* first add was accepted and the next is rejected
C5_AtStock ==
  /\ posMounted
  /\ \E k \in DOMAIN cart :
       /\ ProductOf(cart[k]) # 0
       /\ products[ProductOf(cart[k])].stock = 1
       /\ cart[k].quantity = 1

\* C6 (as claimed): no Sale is committed that contains a line whose product's
\* expiry date is earlier than the time of the commit.
C6_NoExpiredSold ==
  [][ Len(sales') > Len(sales) =>
        \A k \in DOMAIN CommitCart : ~(CommitCart[k].expiryDate < now) ]_vars

\* the held entries other than the k-th, in order
OthersHeld(k) ==
  [ j \in 1..(Len(heldSales) - 1) |->
      IF j < k THEN heldSales[j] ELSE heldSales[j + 1] ]

\* C7 (as claimed): resuming a held entry makes its items the active cart,
\* the total computed for that cart equals the total stored at hold time,
\* and no entry with its id is left in the registry.
C7_RoundTrip ==
  [][ \A k \in DOMAIN heldSales :
        handleResume(k) =>
          /\ cart' = heldSales[k].items
          /\ total(cart', taxRate') = heldSales[k].total
          /\ \A j \in DOMAIN heldSales' :
               heldSales'[j].id # heldSales[k].id ]_vars

\* the tax rate a held entry's stored total was computed with
RateAtHold(h) == (h.total - subtotal(h.items) * 100) \div subtotal(h.items)

\* C7 (amended): hold stores the cart's lines and the total computed for
\* them at the tax rate then in force, and no later step alters a stored
\* entry; resume makes the stored lines the active cart, in order and with
\* their quantities, and leaves no entry with that id in the registry; the
\* total computed for the resumed cart equals the stored total when the tax
\* rate is the one in force at hold time.
C7_RoundTripAtSameRate ==
  [][ /\ \A k \in DOMAIN heldSales :
           handleResume(k) =>
             /\ cart' = heldSales[k].items
             /\ \A j \in DOMAIN heldSales' :
                  heldSales'[j].id # heldSales[k].id
             /\ taxRate' = RateAtHold(heldSales[k])
                  => total(cart', taxRate') = heldSales[k].total
      /\ Len(heldSales') > Len(heldSales) =>
           /\ cart # << >>
           /\ Head(heldSales').items = cart
           /\ Head(heldSales').total = total(cart, taxRate)
           /\ Tail(heldSales') = heldSales
      /\ \A j \in DOMAIN heldSales' :
           \/ \E i \in DOMAIN heldSales : heldSales'[j] = heldSales[i]
           \/ j = 1 /\ Len(heldSales') > Len(heldSales) ]_vars

\* a held entry can be resumed whose stored total is not the total of its
\* lines at the tax rate now in force
C7_RateChangedSinceHold ==
  /\ posMounted
  /\ \E k \in DOMAIN heldSales :
       heldSales[k].total # total(heldSales[k].items, taxRate)

\* C8 (as claimed): the ids of the held entries are pairwise distinct, and
\* resume removes the one entry resumed, leaving every other entry unchanged
\* and in the same order.
C8_ResumeRemovesOne ==
  [][ /\ \A i, j \in DOMAIN heldSales' :
           i # j => heldSales'[i].id # heldSales'[j].id
      /\ \A k \in DOMAIN heldSales :
           handleResume(k) => heldSales' = OthersHeld(k) ]_vars

\* C9 (as claimed): a Sale of the ledger is in the ledger, unaltered, after
\* every step.
C9_AppendOnly ==
  [][ \A i \in DOMAIN sales :
        \E j \in DOMAIN sales' : sales'[j] = sales[i] ]_vars

\* C9 (amended): every step leaves the ledger as it is or puts exactly one
\* new Sale in front of it, except the administrator's "clear sales history"
\* of the Settings page, which empties it.
C9_AppendOnlyButClearData ==
  [][ \/ sales' = sales
      \/ Len(sales') = Len(sales) + 1 /\ Tail(sales') = sales
      \/ handleClearData("DELETE") /\ sales' = << >> ]_vars

\* the ledger has been cleared after a sale was completed
C9_Cleared ==
  /\ sales = << >>
  /\ \E n \in DOMAIN auditLogs : auditLogs[n].action = "CLEAR_DATA"
  /\ \E n \in DOMAIN auditLogs : auditLogs[n].action = "SALE_COMPLETED"

\* C10: a confirmed delete of a product id that no product carries changes
\* nothing; of an id some Sale item references, it is refused: catalog,
\* ledger and audit log are unchanged; of any other id, it removes the
\* product carrying the id, leaves the other products unchanged and in order
\* and the ledger unchanged.  So the delete takes effect exactly when the
\* id is in the catalog and no Sale references it.
C10_DeleteExactlyWhenUnreferenced ==
  [][ \A id \in ProductIds :
        handleDeleteProduct(id, TRUE) =>
          LET present == \E i \in DOMAIN products : products[i].id = id
              referenced ==
                \E s \in DOMAIN sales :
                  \E n \in DOMAIN sales[s].items :
                    sales[s].items[n].productId = id
          IN /\ sales' = sales
             /\ ~present => products' = products /\ auditLogs' = auditLogs
             /\ referenced => products' = products /\ auditLogs' = auditLogs
             /\ present /\ ~referenced =>
                  /\ \A i \in DOMAIN products' : products'[i].id # id
                  /\ products' = SelectSeq(products, LAMBDA p : p.id # id)
                  /\ Len(auditLogs') = Len(auditLogs) + 1
                  /\ Head(auditLogs').action = "DELETE_PRODUCT"
             /\ (products' # products) = (present /\ ~referenced) ]_vars

\* a product has been deleted, and the administrator is on the Inventory
\* page with a product in the catalog that a Sale references
C10_DeleteAndRefusal ==
  /\ user = "admin"
  /\ route = "inventory"
  /\ \E n \in DOMAIN auditLogs : auditLogs[n].action = "DELETE_PRODUCT"
  /\ \E i \in DOMAIN products : isUsedInSales(sales, products[i].id)

\* C11 (as claimed): while a checkout is pending, from Pay to the run of its
\* callback, no add, adjustQuantity, remove, hold, resume, add-product,
\* delete-product or second Pay takes effect.
C11_OneInFlight ==
  [][ timers # << >> =>
        /\ \A i \in DOMAIN products, proceed \in BOOLEAN :
             ~(addToCart(i, proceed) /\ cart' # cart)
        /\ \A k \in DOMAIN cart, delta \in {1, -1} :
             ~(updateQuantity(k, delta) /\ cart' # cart)
        /\ \A k \in DOMAIN cart : ~removeFromCart(k)
        /\ \A hid \in 1..MaxHeldId :
             ~(handleHold(hid) /\ heldSales' # heldSales)
        /\ \A k \in DOMAIN heldSales : ~handleResume(k)
        /\ \A f \in FormData : ~(handleAddProduct(f) /\ products' # products)
        /\ \A id \in ProductIds :
             ~(handleDeleteProduct(id, TRUE) /\ products' # products)
        /\ ~Pay ]_vars

\* sum of price * quantity over the lines (or Sale items) of a sequence
SumLines(c) ==
  LET RECURSIVE upTo(_)
      upTo(n) == IF n = 0 THEN 0
                 ELSE upTo(n - 1) + c[n].price * c[n].quantity
  IN upTo(Len(c))

\* the tax rate the settings give: the value of tax_rate, 0 without one
RateOfSettings ==
  IF settings.tax_rate \in {Absent, Empty} THEN 0 ELSE settings.tax_rate

\* C12: for the active cart and the tax rate of the settings (0 when unset)
\* subtotal is the sum of price * quantity over the lines, tax is
\* subtotal * taxRate / 100 and total is subtotal + tax (amounts in
\* hundredths); one line of price 100 and quantity 2 at rate 17 gives
\* subtotal 200, tax 34, total 234; Pay hands the cart and this total to the
\* checkout, and the Sale the checkout appends has the items of that cart
\* and that total as its totalAmount.
C12_Totals ==
  [][ /\ subtotal(cart) = SumLines(cart)
      /\ taxAmount(cart, taxRate) = SumLines(cart) * RateOfSettings
      /\ total(cart, taxRate) = subtotal(cart) * 100 + taxAmount(cart, taxRate)
      /\ Len(cart) = 1 /\ cart[1].price = 100 /\ cart[1].quantity = 2
           /\ RateOfSettings = 17
         => /\ subtotal(cart) = 200
            /\ taxAmount(cart, taxRate) = 3400
            /\ total(cart, taxRate) = 23400
      /\ Len(timers') > Len(timers) =>
           /\ timers'[Len(timers')].cart = cart
           /\ timers'[Len(timers')].total =
                SumLines(cart) * 100 + SumLines(cart) * RateOfSettings
      /\ Len(sales') > Len(sales) =>
           /\ Head(sales').totalAmount = Head(timers).total
           /\ Len(Head(sales').items) = Len(Head(timers).cart)
           /\ SumLines(Head(sales').items) = SumLines(Head(timers).cart) ]_vars

\* the Sale of one line of price 100 and quantity 2 at rate 17 is in the
\* ledger with total 234, and one committed at another rate
C12_Sale234 ==
  /\ \E n \in DOMAIN sales :
       /\ Len(sales[n].items) = 1
       /\ sales[n].items[1].price = 100
       /\ sales[n].items[1].quantity = 2
       /\ sales[n].totalAmount = 23400
  /\ \E n \in DOMAIN sales :
       sales[n].totalAmount # SumLines(sales[n].items) * 117

\* the global default threshold: the setting, 5 when it is unset
DefaultThreshold ==
  IF settings.low_stock_limit_default \in {Absent, Empty}
    THEN 5 ELSE settings.low_stock_limit_default

\* low-stock as claimed
LowStockAsClaimed(p) ==
  IF p.reorderLevel # 0 THEN p.stock <= p.reorderLevel
  ELSE p.stock <= DefaultThreshold

\* C13: the Inventory low-stock filter lists exactly the products with
\* stock <= reorderLevel when reorderLevel is not 0 and stock <= the global
\* default threshold (the setting, 5 when unset) when it is 0, in catalog
\* order; with reorderLevel 3, stock 3 is low-stock and stock 4 is not; and
\* the Dashboard count is the number of products so listed.
C13_LowStock ==
  /\ filteredProducts("lowstock", now) = SelectSeq(products, LowStockAsClaimed)
  /\ \A i \in DOMAIN products :
       /\ products[i].reorderLevel = 3 /\ products[i].stock = 3
            => matchesFilter(products[i], "lowstock", now)
       /\ products[i].reorderLevel = 3 /\ products[i].stock = 4
            => ~matchesFilter(products[i], "lowstock", now)
  /\ lowStockCount = Len(SelectSeq(products, LowStockAsClaimed))
  /\ lowStockCount = Len(filteredProducts("lowstock", now))

\* the Inventory page shows the low-stock filter with the setting emptied:
\* of two products without a reorder level the one with stock 5 is listed
\* and the one with stock 6 is not
C13_FilterShown ==
  /\ route = "inventory"
  /\ activeFilter = "lowstock"
  /\ settings.low_stock_limit_default = Empty
  /\ Len(products) = 2
  /\ products[1].reorderLevel = 0 /\ products[1].stock = 5
  /\ products[2].reorderLevel = 0 /\ products[2].stock = 6
  /\ lowStockCount = 1

\* C14 (as claimed): the Inventory 'expiring' filter and the POS near-expiry
\* flag select a product only if it is not yet expired and its days until
\* expiry are at most expiryAlertDays, and they agree on every product.
C14_NearExpiry ==
  \A i \in DOMAIN products :
    LET p == products[i] IN
      /\ matchesFilter(p, "expiring", now) =>
           ~(p.expiryDate < now) /\ daysToExpiry(p, now) <= expiryAlertDays
      /\ isNearExpiry(p, now) =>
           ~(p.expiryDate < now) /\ daysToExpiry(p, now) <= expiryAlertDays
      /\ matchesFilter(p, "expiring", now) = isNearExpiry(p, now)

\* C15: role gating. Leaving aside the steps of checkout, which is a POS
\* operation: the catalog grows only in a session of an admin or a
\* pharmacist, shrinks only in a session of an admin, and is otherwise as it
\* was; the settings change, a user is created, updated or deleted and the
\* sales history is cleared only in a session of an admin; and a session of
\* a cashier leaves catalog, settings, ledger and audit log as they were.
C15_RoleGating ==
  [][ ~CheckoutCommit =>
        /\ Len(products') > Len(products) => user \in {"admin", "pharmacist"}
        /\ Len(products') < Len(products) => user = "admin"
        /\ Len(products') = Len(products) => products' = products
        /\ settings' # settings => user = "admin"
        /\ sales' # sales => user = "admin"
        /\ ( /\ auditLogs' # auditLogs
             /\ Head(auditLogs').action
                  \in UserActions \cup {"CLEAR_DATA", "DELETE_PRODUCT"} )
             => user = "admin"
        /\ user = "cashier" =>
             UNCHANGED << products, settings, sales, auditLogs >> ]_vars

\* a cashier, logged in after a pharmacist who added a product and an admin
\* who cleared the sales history, has a product in the cart
C15_CashierAfterOthers ==
  /\ user = "cashier"
  /\ route = "pos"
  /\ cart # << >>
  /\ Len(auditLogs) = 2
  /\ auditLogs[2].userId = "pharmacist" /\ auditLogs[2].action = "ADD_PRODUCT"
  /\ auditLogs[1].userId = "admin" /\ auditLogs[1].action = "CLEAR_DATA"

\* C16: a checkout that succeeds prepends exactly one audit entry, a
\* SALE_COMPLETED with the id and the total of the Sale it appends in the
\* same step; a checkout that aborts leaves the audit log as it was; a
\* SALE_COMPLETED entry is written by no other step; and every step keeps
\* the entries there were, unaltered and in order, behind the new ones.
C16_AuditTrail ==
  [][ /\ CheckoutCommit =>
           IF sales' # sales
             THEN /\ Len(sales') = Len(sales) + 1
                  /\ Len(auditLogs') = Len(auditLogs) + 1
                  /\ Head(auditLogs').action = "SALE_COMPLETED"
                  /\ Head(auditLogs').details
                       = << Head(sales').id, Head(sales').totalAmount >>
             ELSE auditLogs' = auditLogs
      /\ ( /\ auditLogs' # auditLogs
           /\ Head(auditLogs').action = "SALE_COMPLETED" )
           => CheckoutCommit /\ sales' # sales
      /\ Len(auditLogs') >= Len(auditLogs)
      /\ SubSeq(auditLogs', Len(auditLogs') - Len(auditLogs) + 1,
                Len(auditLogs')) = auditLogs ]_vars

\* the sales history was cleared after a checkout: the ledger is empty and
\* the SALE_COMPLETED entry is still in the audit log, behind the CLEAR_DATA
C16_ClearedLedgerKeepsEntry ==
  /\ sales = << >>
  /\ Len(auditLogs) = 2
  /\ auditLogs[1].action = "CLEAR_DATA"
  /\ auditLogs[2].action = "SALE_COMPLETED"

\* C17: hold on an empty cart changes nothing; hold on a cart with lines
\* puts exactly one entry in front of the registry, with the lines of the
\* cart as items, the total of the cart as total and the current user as
\* owner, and empties the cart; every entry of the registry has at least one
\* line, and every line of it a quantity of at least 1.
C17_Hold ==
  [][ /\ \A hid \in 1..HoldMaxHeldId :
           handleHold(hid) =>
             IF cart = << >>
               THEN UNCHANGED vars
               ELSE /\ Len(heldSales') = Len(heldSales) + 1
                    /\ Tail(heldSales') = heldSales
                    /\ Head(heldSales').items = cart
                    /\ Head(heldSales').total = total(cart, taxRate)
                    /\ Head(heldSales').userId = user
                    /\ cart' = << >>
      /\ \A j \in DOMAIN heldSales' :
           /\ Len(heldSales'[j].items) >= 1
           /\ \A i \in DOMAIN heldSales'[j].items :
                heldSales'[j].items[i].quantity >= 1 ]_vars

\* a cart of two lines, one of them with quantity 2, has been held: it is
\* the entry in front of the registry and the cart is empty
C17_TwoLinesHeld ==
  /\ cart = << >>
  /\ heldSales # << >>
  /\ Len(Head(heldSales).items) = 2
  /\ \E i \in 1..2 : Head(heldSales).items[i].quantity = 2
  /\ Head(heldSales).total = total(Head(heldSales).items, taxRate)
  /\ Head(heldSales).userId = user

\* C18: a step that is not a resume leaves the held-sale registry as it was
\* behind the entries it adds, with every entry's items and total; an entry
\* leaves the registry only in a resume of an entry with its id.
C18_HeldKept ==
  [][ IF \E k \in DOMAIN heldSales : handleResume(k)
        THEN \A j \in DOMAIN heldSales :
               \/ \E i \in DOMAIN heldSales' : heldSales'[i] = heldSales[j]
               \/ \E k \in DOMAIN heldSales :
                    handleResume(k) /\ heldSales[k].id = heldSales[j].id
        ELSE /\ Len(heldSales') >= Len(heldSales)
             /\ SubSeq(heldSales', Len(heldSales') - Len(heldSales) + 1,
                       Len(heldSales')) = heldSales ]_vars

\* the sale the admin held at the rate of 17 is in the registry of the
\* cashier's session, after the admin lowered the tax rate, cleared the sales
\* history of a checkout and logged out
C18_HeldAcrossSessions ==
  /\ user = "cashier"
  /\ route = "pos"
  /\ heldSales # << >>
  /\ Head(heldSales).userId = "admin"
  /\ Head(heldSales).total = total(Head(heldSales).items, 17)
  /\ settings.tax_rate = 5
  /\ Len(auditLogs) = 2
  /\ auditLogs[1].action = "CLEAR_DATA"
  /\ auditLogs[2].action = "SALE_COMPLETED"

\* the checks of the add-product form, as claimed
FormAsClaimed(f) ==
  /\ f.name /\ f.genericName /\ f.barcode /\ f.batchNumber
  /\ f.expiryDate # Missing
  /\ f.expiryDate >= now
  /\ f.costPrice > 0
  /\ f.price > 0
  /\ f.costPrice <= f.price

\* C19: submitting the add-product form appends the product of the form to
\* the catalog, with one audit entry, when name, generic name, barcode,
\* batch number and expiry date are present, the expiry date is not in the
\* past, cost and price are above 0 and the cost is at most the price; it
\* leaves catalog and audit log as they were when a check fails. A product
\* so added has 0 < costPrice <= price and is not expired.
C19_FormChecks ==
  [][ \A f \in FormData :
        handleAddProduct(f) =>
          IF FormAsClaimed(f)
            THEN /\ Len(products') = Len(products) + 1
                 /\ SubSeq(products', 1, Len(products)) = products
                 /\ LET p == products'[Len(products')]
                    IN /\ p.id = f.id
                       /\ 0 < p.costPrice /\ p.costPrice <= p.price
                       /\ ~isExpired(p, now)
                 /\ Len(auditLogs') = Len(auditLogs) + 1
                 /\ Head(auditLogs').action = "ADD_PRODUCT"
            ELSE products' = products /\ auditLogs' = auditLogs ]_vars

\* a product was added through the form on the day after time 0, with an
\* expiry date ahead, cost 60 and price 100
C19_ProductAdded ==
  /\ now = MaxTime
  /\ user = "pharmacist"
  /\ route = "inventory"
  /\ Len(products) = Len(MOCK_PRODUCTS) + 1
  /\ products[Len(products)].costPrice = 60
  /\ products[Len(products)].price = 100
  /\ products[Len(products)].expiryDate > now
  /\ auditLogs # << >>
  /\ Head(auditLogs).action = "ADD_PRODUCT"

\* C20 (as claimed): no two products of the catalog have the same id, so
\* that an id names at most one product of the catalog.
C20_UniqueIds ==
  \A i, j \in DOMAIN products :
    products[i].id = products[j].id => i = j

\* C21: after every login and logout, with the session effect run, the item
\* under the fixed key is the serialized record of the logged-in user when a
\* user is logged in, and is not there when none is; and the user the App
\* would start with on that item is the session user.
C21_SessionCache ==
  /\ user # NoUser => storage = JSONstringify(user)
  /\ user = NoUser => storage = NoItem
  /\ savedUser(storage) = user

\* a cashier is logged in, and cached, after an admin who sold and logged
\* out
C21_SecondSession ==
  /\ user = "cashier"
  /\ storage = << "role", "cashier" >>
  /\ sales # << >>
  /\ Head(sales).userId = "admin"

\* the search as claimed: the term is a case-insensitive substring of the
\* name, the generic name, the barcode or the SKU
SearchAsClaimed(p, term) ==
  \E field \in {"name", "genericName", "barcode", "sku"} :
    includes(toLowerCase(p[field]), toLowerCase(term))

\* C22 (as claimed): the POS product list and the Inventory table show
\* exactly the products in which the search term is a case-insensitive
\* substring of the name, the generic name, the barcode or the SKU, and
\* which pass the category, or the quick filter, in force.
C22_Search ==
  /\ route = "pos" =>
       posFilteredProducts(searchTerm, selectedCategory)
         = SelectSeq(products, LAMBDA p :
             SearchAsClaimed(p, searchTerm)
               /\ (selectedCategory = "All" \/ p.category = selectedCategory))
  /\ route = "inventory" =>
       inventoryFilteredProducts(searchTerm, activeFilter, now)
         = SelectSeq(products, LAMBDA p :
             SearchAsClaimed(p, searchTerm)
               /\ matchesFilter(p, activeFilter, now))

\* the cart without its k-th line
WithoutLine(c, k) ==
  [ j \in 1..(Len(c) - 1) |-> IF j < k THEN c[j] ELSE c[j + 1] ]

\* C23: updateQuantity by +1 or -1 on a line leaves the cart as it was when
\* the new quantity is above the stock the product has in the catalog;
\* otherwise the quantity of the line becomes max(0, quantity + delta), the
\* line leaves the cart when it reaches 0, and the other lines are as they
\* were. After every step each line of the cart has a quantity of at least
\* 1 and no two lines have the same product id.
C23_AdjustQuantity ==
  [][ /\ \A k \in DOMAIN cart, delta \in {1, -1} :
           updateQuantity(k, delta) =>
             LET line == cart[k]
                 pk == FindById(products, line.id)
                 q == IF line.quantity + delta < 0 THEN 0
                      ELSE line.quantity + delta
             IN IF pk # 0 /\ line.quantity + delta > products[pk].stock
                  THEN cart' = cart
                  ELSE IF q = 0
                    THEN cart' = WithoutLine(cart, k)
                    ELSE cart' = [ cart EXCEPT ![k].quantity = q ]
      /\ \A i \in DOMAIN cart' : cart'[i].quantity >= 1
      /\ \A i, j \in DOMAIN cart' :
           cart'[i].id = cart'[j].id => i = j ]_vars

\* a cart of two lines, one of them at the stock of its product with a
\* quantity of 2: a further +1 on it is refused, a -1 is not
C23_LineAtStock ==
  /\ posMounted
  /\ Len(cart) = 2
  /\ \E k \in DOMAIN cart :
       /\ cart[k].quantity = 2
       /\ FindById(products, cart[k].id) # 0
       /\ products[FindById(products, cart[k].id)].stock = 2

\* C24: addToCart leaves the cart as it was when the product is expired and
\* when it requires a prescription and the confirmation is declined;
\* otherwise, with or without a warning note, the quantity of the product in
\* the cart goes up by one unless the stock is reached. A line that requires
\* a prescription comes into the cart only by an add that was confirmed for
\* a product of its id or by the resume of a held cart that has it, and into
\* a held cart only from the active cart.
C24_RxConfirmed ==
  [][ /\ \A i \in DOMAIN products, proceed \in BOOLEAN :
           addToCart(i, proceed) =>
             LET product == products[i] IN
               IF \/ product.expiryDate < now
                  \/ product.requiresPrescription /\ ~proceed
                 THEN cart' = cart
                 ELSE IF QuantityIn(cart, product.id) + 1 > product.stock
                   THEN cart' = cart
                   ELSE QuantityIn(cart', product.id)
                          = QuantityIn(cart, product.id) + 1
      /\ \A j \in DOMAIN cart' :
           ( /\ cart'[j].requiresPrescription
             /\ \A l \in DOMAIN cart : cart[l] # cart'[j]
             /\ QuantityIn(cart, cart'[j].id) = 0 )
           => \/ \E i \in DOMAIN products :
                   /\ addToCart(i, TRUE)
                   /\ products[i].id = cart'[j].id
                   /\ products[i].requiresPrescription
              \/ \E k \in DOMAIN heldSales :
                   /\ handleResume(k)
                   /\ \E l \in DOMAIN heldSales[k].items :
                        heldSales[k].items[l] = cart'[j]
      /\ \A h \in DOMAIN heldSales' :
           (\A g \in DOMAIN heldSales : heldSales[g] # heldSales'[h])
             => heldSales'[h].items = cart ]_vars

\* the add of a prescription product with a warning note was confirmed: the
\* note was shown and the product is in the cart, and a cart with it is held
C24_ConfirmedWithNote ==
  /\ posMounted
  /\ alerts = << "NOTE" >>
  /\ Len(cart) = 1
  /\ cart[1].requiresPrescription
  /\ cart[1].id = 1
  /\ heldSales # << >>
  /\ Head(heldSales).items[1].requiresPrescription

\* C25: the Sale a checkout puts in the ledger has one item per line of the
\* cart the checkout was started on, in order, with the id, name, quantity,
\* price, cost, batch number and narcotic flag of the line; it has at least
\* one item, every item has a quantity of at least 1, and it carries the
\* user who started the checkout, the only user who can be logged in when
\* it commits. A step that changes the catalog leaves every Sale of the
\* ledger as it was.
C25_SaleSnapshot ==
  [][ /\ (CheckoutCommit /\ sales' # sales) =>
           LET t == Head(timers)
               s == Head(sales')
           IN /\ Tail(sales') = sales
              /\ Len(s.items) = Len(t.cart)
              /\ Len(s.items) >= 1
              /\ \A i \in DOMAIN s.items :
                   /\ s.items[i].productId = t.cart[i].id
                   /\ s.items[i].productName = t.cart[i].name
                   /\ s.items[i].quantity = t.cart[i].quantity
                   /\ s.items[i].price = t.cart[i].price
                   /\ s.items[i].costPrice = t.cart[i].costPrice
                   /\ s.items[i].batchNumber = t.cart[i].batchNumber
                   /\ s.items[i].isNarcotic = t.cart[i].isNarcotic
                   /\ s.items[i].quantity >= 1
              /\ s.userId = t.user
              /\ s.userId # NoUser
              /\ user \in {s.userId, NoUser}
      /\ products' # products =>
           \A i \in DOMAIN sales :
             sales'[i + Len(sales') - Len(sales)] = sales[i] ]_vars

\* the Sale of a narcotic by the cashier is in the ledger as it was made, in
\* a later session of the admin in which a product was added to the catalog
C25_SaleOutlivesCatalog ==
  /\ user = "admin"
  /\ sales # << >>
  /\ Head(sales).userId = "cashier"
  /\ Head(sales).items[1].productName = "P2"
  /\ Head(sales).items[1].batchNumber = "B2"
  /\ Head(sales).items[1].isNarcotic
  /\ Len(products) = 3

\* C26 (as claimed): the POS stock indicator marks a product as low in stock
\* exactly when the indicator of the Inventory table does, which is when the
\* Dashboard counts it, for every product and every default threshold.
C26_SameIndicator ==
  /\ \A i \in DOMAIN products :
       /\ posLowStock(products[i]) = inventoryLowStock(products[i])
       /\ inventoryLowStock(products[i]) = LowStockAsClaimed(products[i])
  /\ lowStockCount = Len(SelectSeq(products, posLowStock))

\* C27 (as claimed): the Sale a checkout commits has exactly the lines the
\* active cart has when the commit runs, so that the commit clears no line
\* it does not sell, and the cart it sells is in no held entry made since
\* Pay was pressed.
C27_SellsActiveCart ==
  [][ (CheckoutCommit /\ sales' # sales) =>
        /\ Head(sales').items = [ i \in DOMAIN cart |-> SaleItemOf(cart[i]) ]
        /\ \A h \in DOMAIN heldSales :
             heldSales[h].items # Head(timers).cart ]_vars

\* C28 (as claimed): a checkout that succeeds leaves the catalog as it is
\* when the commit runs, but for the stock of the products of the committed
\* cart, which goes down by the quantity sold: the products are the same
\* and every other field of theirs is as before the commit.
C28_DecrementsCurrentCatalog ==
  [][ (CheckoutCommit /\ sales' # sales) =>
        /\ Len(products') = Len(products)
        /\ \A i \in DOMAIN products :
             LET k == FindById(Head(timers).cart, products[i].id)
             IN IF k = 0
                  THEN products'[i] = products[i]
                  ELSE products'[i] =
                         [ products[i] EXCEPT
                             !.stock = @ - Head(timers).cart[k].quantity ]
      ]_vars

\* C29 (as claimed): every item of every Sale of the ledger has the id of a
\* product that is in the catalog.
C29_LedgerRefersToCatalog ==
  \A s \in DOMAIN sales :
    \A i \in DOMAIN sales[s].items :
      FindById(products, sales[s].items[i].productId) # 0

\* C30 (as claimed): updateQuantity by -1 on a line of the cart lowers the
\* quantity of the line by one, the line leaving the cart at 0, whatever
\* stock the product has in the catalog: in every state of the POS page the
\* cart that updateQuantity(id, -1) computes for a line is the cart with
\* that line one lower.
C30_DecrementAlways ==
  posMounted =>
    \A k \in DOMAIN cart :
      adjustCart(cart, cart[k].id, -1) =
        IF cart[k].quantity = 1
          THEN WithoutLine(cart, k)
          ELSE [ cart EXCEPT ![k].quantity = @ - 1 ]
====
